---- MODULE Spec2Model ----
(***************************************************************************)
(* yapl (src/src/lib.rs): the primality test is_prime over an unsigned      *)
(* integer type, and PrimeIterator, the generator that scans successive     *)
(* integers with it.                                                        *)
(*                                                                          *)
(* The integer type is u64 in the program.  The model keeps the machine     *)
(* arithmetic (every +, * is taken modulo 2^W, or aborts, as the build      *)
(* decides) and scales the width down to W bits.                            *)
(***************************************************************************)
EXTENDS Integers, Sequences, FiniteSets, TLC

VARIABLES
    overflow_checks,  \* the build profile: TRUE = arithmetic overflow panics
                      \* (debug/test), FALSE = it wraps modulo 2^W (release)
    p_pc,             \* is_prime: "idle", "loop", "done" or "panic"
    p_n,              \* is_prime: the argument n
    p_i,              \* is_prime: the local i
    p_ret,            \* is_prime: the value returned
    number,           \* PrimeIterator.number, per instance
    pc,               \* per instance: "none" (not constructed), "idle",
                      \* "scan" (inside next) or "panic"
    out,              \* per instance: the values next has returned
    trace             \* per instance: what next printed, one entry per line

vars == <<overflow_checks, p_pc, p_n, p_i, p_ret, number, pc, out, trace>>
primeVars == <<p_pc, p_n, p_i, p_ret>>
iterVars == <<number, pc, out, trace>>

\* Width of the unsigned integer type, scaled down from 64.
W == 8
\* Calls to next per instance when two instances are interleaved.
MaxCallsPair == 12
\* Calls to next on a single instance.
MaxCallsSolo == 60

Modulus == 2 ^ W
MaxValue == Modulus - 1
UInt == 0 .. MaxValue

Some(v) == <<"Some", v>>
None == <<"None">>
Last(s) == s[Len(s)]

-----------------------------------------------------------------------------
(* Machine arithmetic.  A result is [ok, v]: ok is FALSE when the operation *)
(* aborts the thread (overflow with overflow checks on, division by zero).  *)

Arith(exact, checked) ==
    IF exact > MaxValue
      THEN [ok |-> ~checked, v |-> exact % Modulus]
      ELSE [ok |-> TRUE, v |-> exact]

Mul(a, b, checked) == Arith(a * b, checked)
Add(a, b, checked) == Arith(a + b, checked)

\* a % b, which panics on b = 0 in every build
Rem(a, b) ==
    IF b = 0 THEN [ok |-> FALSE, v |-> 0] ELSE [ok |-> TRUE, v |-> a % b]

-----------------------------------------------------------------------------
(* is_prime                                                                 *)

Panicked == [pc |-> "panic", i |-> 0, ret |-> FALSE]
Returned(b) == [pc |-> "done", i |-> 0, ret |-> b]
Looping(i) == [pc |-> "loop", i |-> i, ret |-> FALSE]

\* lines 32-40: the early returns and `let mut i = 5`
is_prime_entry(n) ==
    IF n <= 1 THEN Returned(FALSE)
    ELSE IF n <= 3 THEN Returned(TRUE)
    ELSE IF n % 2 = 0 \/ n % 3 = 0 THEN Returned(FALSE)
    ELSE Looping(5)

\* line 41: the operand i * i of the loop test
LoopSquare(i, checked) == Mul(i, i, checked)

\* lines 41-47: one evaluation of the loop test and, when it holds, of the body
is_prime_loop(n, i, checked) ==
    LET sq == LoopSquare(i, checked) IN
    IF ~sq.ok THEN Panicked
    ELSE IF ~(sq.v <= n) THEN Returned(TRUE)
    ELSE LET r1 == Rem(n, i) IN
         IF ~r1.ok THEN Panicked
         ELSE IF r1.v = 0 THEN Returned(FALSE)
         ELSE LET i2 == Add(i, 2, checked) IN
              IF ~i2.ok THEN Panicked
              ELSE LET r2 == Rem(n, i2.v) IN
                   IF ~r2.ok THEN Panicked
                   ELSE IF r2.v = 0 THEN Returned(FALSE)
                   ELSE LET i6 == Add(i, 6, checked) IN
                        IF ~i6.ok THEN Panicked ELSE Looping(i6.v)

\* lines 31-48, the whole call: the entry, then the loop round after round.
\* The result is [pc |-> "done", ret |-> verdict] or [pc |-> "panic"].
is_prime(n, checked) ==
    LET run[i \in UInt] ==
            LET st == is_prime_loop(n, i, checked) IN
            IF st.pc = "loop" THEN run[st.i] ELSE st
        entry == is_prime_entry(n)
    IN  IF entry.pc = "loop" THEN run[entry.i] ELSE entry

\* A call of is_prime begins: the early returns, or the loop is entered.
PrimeCall ==
    /\ p_pc \in {"idle", "done"}
    /\ \E n \in UInt :
         LET st == is_prime_entry(n) IN
         /\ p_n' = n
         /\ p_pc' = st.pc
         /\ p_i' = st.i
         /\ p_ret' = st.ret
    /\ UNCHANGED <<overflow_checks, iterVars>>

\* One round of the while loop.
PrimeLoop ==
    /\ p_pc = "loop"
    /\ LET st == is_prime_loop(p_n, p_i, overflow_checks) IN
         /\ p_pc' = st.pc
         /\ p_i' = st.i
         /\ p_ret' = st.ret
    /\ UNCHANGED <<p_n, overflow_checks, iterVars>>

-----------------------------------------------------------------------------
(* PrimeIterator                                                            *)

Iters == {"a", "b"}

\* A constructor that starts at the first prime instead of before it.
new_from_two == [number |-> 2]

\* line 81: PrimeIterator { number: 1 }
new == [number |-> 1]

\* line 106: return Some(self.number)
next_return(num) == Some(num)

\* A cursor shared by all the instances (a static) instead of a field.
store_number_shared(cursors, it, v) == [j \in DOMAIN cursors |-> v]

\* line 102: the store of `self.number += 1` through &mut self
store_number(cursors, it, v) == [cursors EXCEPT ![it] = v]

\* line 102: the value of `self.number += 1`
next_increment(num, checked) == Add(num, 1, checked)

\* A next that reports the end of the sequence at a composite instead of
\* going round the loop again.
rejected_returns_none(n) ==
    [pc |-> "idle", number |-> n,
     printed |-> <<[n |-> n, found |-> FALSE]>>, ret |-> <<None>>]

\* lines 103 and 108: the candidate is printed, the line is ended without a
\* mark and the loop goes round again
rejected(n) ==
    [pc |-> "scan", number |-> n,
     printed |-> <<[n |-> n, found |-> FALSE]>>, ret |-> <<>>]

\* lines 103, 105 and 106: the candidate is printed, marked "<-" and returned
found(n) ==
    [pc |-> "idle", number |-> n,
     printed |-> <<[n |-> n, found |-> TRUE]>>, ret |-> <<next_return(n)>>]

\* lines 102-108: one round of the loop of next, from cursor value num.
\* pc: "idle" = returned, "scan" = goes round again, "panic" = aborted;
\* printed: the lines written to the diagnostic output in this round.
next_round(num, checked) ==
    LET inc == next_increment(num, checked) IN
    IF ~inc.ok
      THEN [pc |-> "panic", number |-> num, printed |-> <<>>, ret |-> <<>>]
      ELSE LET verdict == is_prime(inc.v, checked) IN
           IF verdict.pc = "panic"
             THEN [pc |-> "panic", number |-> inc.v,
                   printed |-> <<[n |-> inc.v, found |-> FALSE]>>, ret |-> <<>>]
           ELSE IF verdict.ret THEN found(inc.v)
           ELSE rejected(inc.v)

\* PrimeIterator::new()
New(it) ==
    /\ pc[it] = "none"
    /\ number' = store_number(number, it, new.number)
    /\ pc' = [pc EXCEPT ![it] = "idle"]
    /\ UNCHANGED <<out, trace, overflow_checks, primeVars>>

\* The owner of the instance calls next (at most cap calls are followed).
NextCall(it, cap) ==
    /\ pc[it] = "idle"
    /\ Len(out[it]) < cap
    /\ pc' = [pc EXCEPT ![it] = "scan"]
    /\ UNCHANGED <<number, out, trace, overflow_checks, primeVars>>

\* One round of the loop of next on one instance.
NextRound(it) ==
    /\ pc[it] = "scan"
    /\ LET r == next_round(number[it], overflow_checks) IN
         /\ number' = store_number(number, it, r.number)
         /\ pc' = [pc EXCEPT ![it] = r.pc]
         /\ out' = [out EXCEPT ![it] = @ \o r.ret]
         /\ trace' = [trace EXCEPT ![it] = @ \o r.printed]
    /\ UNCHANGED <<overflow_checks, primeVars>>

\* Arguments of the calls of is_prime made beside the generators.
PrimeInputs == {0, 3, 25, MaxValue - 4}

\* A whole call of is_prime made by another caller while generators exist.
PrimeEval ==
    /\ p_pc \in {"idle", "done"}
    /\ \E n \in PrimeInputs :
         LET st == is_prime(n, overflow_checks) IN
         /\ p_n' = n
         /\ p_pc' = st.pc
         /\ p_i' = st.i
         /\ p_ret' = st.ret
    /\ UNCHANGED <<overflow_checks, iterVars>>

-----------------------------------------------------------------------------

Init ==
    /\ overflow_checks \in BOOLEAN
    /\ p_pc = "idle"
    /\ p_n = 0
    /\ p_i = 0
    /\ p_ret = FALSE
    /\ number = [it \in Iters |-> 0]
    /\ pc = [it \in Iters |-> "none"]
    /\ out = [it \in Iters |-> <<>>]
    /\ trace = [it \in Iters |-> <<>>]

\* is_prime alone, round by round, on every argument
NextPrime == PrimeCall \/ PrimeLoop

SpecPrime == Init /\ [][NextPrime]_vars

\* A running call keeps running: the loop is never suspended.
FairPrime == SpecPrime /\ WF_vars(PrimeLoop)

\* Two generators whose calls are interleaved, beside calls of is_prime
NextIter ==
    \/ \E it \in Iters : New(it)
    \/ \E it \in Iters : NextCall(it, MaxCallsPair)
    \/ \E it \in Iters : NextRound(it)
    \/ PrimeEval

SpecIter == Init /\ [][NextIter]_vars

\* One generator, followed through the whole range of the integer type
NextSolo ==
    \/ New("a")
    \/ NextCall("a", MaxCallsSolo)
    \/ NextRound("a")

SpecSolo == Init /\ [][NextSolo]_vars

\* A call of next that has begun keeps running.
FairSolo == SpecSolo /\ WF_vars(NextRound("a"))

-----------------------------------------------------------------------------
(* Properties of is_prime (SpecPrime, FairPrime)                            *)

\* The reference definition of a prime, over the mathematical integers.
IsPrimeRef(n) == n > 1 /\ \A d \in 2 .. (n - 1) : n % d # 0

\* C1: for every input n of the integer type, a call of is_prime ends by
\* returning TRUE exactly when n is prime and FALSE otherwise.
C1_IsPrimeCorrect ==
    p_pc \in {"done", "panic"} => (p_pc = "done" /\ p_ret = IsPrimeRef(p_n))

\* C2: every value of i the loop reaches has a square that fits the integer
\* type, so the loop test i * i <= n is never taken from a wrapped product.
C2_SquareFits == p_pc = "loop" => p_i * p_i <= MaxValue

\* C3: is_prime is total: a call never aborts and, once in its loop, ends by
\* returning.
C3_Total == [](p_pc # "panic") /\ ((p_pc = "loop") ~> (p_pc = "done"))

-----------------------------------------------------------------------------
(* Properties of PrimeIterator (SpecSolo, FairSolo, SpecIter)               *)

IsPrefix(s, t) == Len(s) <= Len(t) /\ \A k \in 1 .. Len(s) : s[k] = t[k]

\* The primes in ascending order, by the reference definition (far enough
\* beyond the integer type for every call that is followed).
PrimeTable == SelectSeq([k \in 1 .. 2 * Modulus |-> k], IsPrimeRef)

\* C4: the k-th call of next on a fresh generator returns the k-th prime.
C4_KthPrime ==
    \A it \in Iters : \A k \in 1 .. Len(out[it]) :
        k <= Len(PrimeTable) /\ out[it][k] = Some(PrimeTable[k])

\* The values a generator returns when it runs alone: k whole calls of next
\* from cursor value num, stopping at an abort.
SoloCalls(start, calls, checked) ==
    LET run[num \in UInt, k \in 0 .. calls] ==
            IF k = 0 THEN <<>>
            ELSE LET r == next_round(num, checked) IN
                 IF r.pc = "panic" THEN <<>>
                 ELSE IF r.pc = "idle" THEN r.ret \o run[r.number, k - 1]
                 ELSE run[r.number, k]
    IN  run[start, calls]

SoloChecked == SoloCalls(new.number, MaxCallsPair, TRUE)
SoloWrapping == SoloCalls(new.number, MaxCallsPair, FALSE)
Solo == IF overflow_checks THEN SoloChecked ELSE SoloWrapping

\* C5: two generators whose calls are interleaved each return what a generator
\* running alone returns, so their sequences agree, and a step of one leaves
\* the cursor of the other unchanged.
C5_Independent ==
    /\ [](\A it \in Iters : IsPrefix(out[it], Solo))
    /\ [](IsPrefix(out["a"], out["b"]) \/ IsPrefix(out["b"], out["a"]))
    /\ [][\A i, j \in Iters :
            (i # j /\ pc[j] # "none" /\ number'[i] # number[i])
                => number'[j] = number[j]]_vars

C5_Witness ==
    /\ Len(out["a"]) = 5
    /\ Len(out["b"]) = 3
    /\ pc["a"] = "scan"
    /\ pc["b"] = "scan"
    /\ number["b"] > 5

C7_CursorForward ==
    [][\A it \in Iters :
         /\ (pc[it] # "none" /\ number'[it] # number[it])
               => number'[it] = number[it] + 1
         /\ (Len(out[it]) > 0 /\ Len(out'[it]) > Len(out[it]))
               => Last(out'[it])[2] > Last(out[it])[2]]_vars

\* A fresh instance has cursor 1 and has printed nothing; an instance whose
\* call has returned Some(p) has cursor p.
C8_State ==
    \A it \in Iters :
        /\ (pc[it] = "idle" /\ out[it] = <<>>)
              => (number[it] = 1 /\ trace[it] = <<>>)
        /\ (pc[it] = "idle" /\ out[it] # <<>>)
              => Last(out[it]) = Some(number[it])

\* The cursor changes only in new and inside a call of next on the instance,
\* and the first candidate a call examines is the last value returned plus 1.
C8_Step ==
    \A it \in Iters :
        /\ number'[it] # number[it] => pc[it] \in {"none", "scan"}
        /\ (pc[it] = "scan" /\ out[it] # <<>> /\ number[it] = Last(out[it])[2]
              /\ trace'[it] # trace[it])
              => Last(trace'[it]).n = Last(out[it])[2] + 1

\* C8: the cursor is 1 after construction; when next has returned Some(p) the
\* cursor is p and the following call examines p + 1 first; outside a call
\* of next on the instance nothing (is_prime, new on another instance, next
\* on another instance) changes its cursor.
C8_Cursor == []C8_State /\ [][C8_Step]_vars

C8_Witness ==
    /\ pc["a"] = "idle"
    /\ Len(out["a"]) >= 3
    /\ pc["b"] = "idle"
    /\ trace["b"] = <<>>
    /\ p_pc = "done"

\* C9: every call of next that has begun returns.
C9_NextReturns == \A it \in Iters : (pc[it] = "scan") ~> (pc[it] = "idle")

\* The candidates printed with the mark, in order, as values returned.
IsFound(e) == e.found
Marked(t) ==
    LET sel == SelectSeq(t, IsFound) IN [k \in 1 .. Len(sel) |-> Some(sel[k].n)]

\* C10: the diagnostic output lists the candidates 2, 3, 4, 5, ... one after
\* the other, each once, and the marked ones are exactly the values returned.
C10_Trace ==
    \A it \in Iters :
        /\ \A k \in 1 .. Len(trace[it]) : trace[it][k].n = k + 1
        /\ Marked(trace[it]) = out[it]

====
